---- MODULE Spec2Model ----
(***************************************************************************)
(* Ontology evaluation metrics (Evaluation.py).                            *)
(*                                                                         *)
(* The program parses a Turtle file into a triple store g, classifies the  *)
(* triples (extract_elements) and computes schema and knowledge-base       *)
(* metrics.  The store is a set of triples <<s, p, o>>; nodes are URI      *)
(* references, blank nodes or literals, as in rdflib.                      *)
(***************************************************************************)
EXTENDS Integers, FiniteSets, Sequences, TLC

VARIABLES
    g,              \* the triple store (rdflib Graph)
    pc,             \* position of the main script
    elems,          \* result of extract_elements
    RR, IR, AR,     \* schema metrics
    CR,             \* class richness
    conn,           \* class_connectivity result
    subclass_map,   \* class_importance: parent -> list of children
    total_instances,
    importance,     \* class_importance: result under construction
    imp_todo,       \* classes the for loop of class_importance has not taken yet
    cls,            \* class_importance: current loop variable
    queue,          \* class_importance: deque
    subtree,        \* class_importance: closure under construction
    adds,           \* number of subtree.add calls per class, for the current cls
    pops,           \* number of queue.popleft calls for the current cls
    adj,            \* cohesion: adjacency
    visited,        \* cohesion: visited set
    components,     \* cohesion: counter
    coh_todo,       \* instances the for loop of cohesion has not taken yet
    stack,          \* cohesion: the list `queue`, popped from its end
    marks,          \* number of visited.add calls per instance
    coh,            \* cohesion result
    per_rr          \* per_class_relationship_richness result

vars == <<g, pc, elems, RR, IR, AR, CR, conn, subclass_map, total_instances,
          importance, imp_todo, cls, queue, subtree, adds, pops, adj, visited,
          components, coh_todo, stack, marks, coh, per_rr>>

-----------------------------------------------------------------------------
(* Vocabulary: the rdflib terms the program names.                         *)

RDF_type == "rdf:type"
RDFS_subClassOf == "rdfs:subClassOf"
RDFS_domain == "rdfs:domain"
RDFS_Class == "rdfs:Class"
OWL_Class == "owl:Class"
OWL_ObjectProperty == "owl:ObjectProperty"
OWL_DatatypeProperty == "owl:DatatypeProperty"
OWL_AllDisjointClasses == "owl:AllDisjointClasses"
OWL_members == "owl:members"
OWL_disjointWith == "owl:disjointWith"
RDF_first == "rdf:first"
RDF_rest == "rdf:rest"
RDF_nil == "rdf:nil"

(* Node kinds.  Blank nodes start with "_:", the literal is "lit".         *)
BNodes == {"_:b", "_:k", "_:g1", "_:g2", "_:g3",
           "_:l11", "_:l12", "_:l21", "_:l22", "_:l23"}
Literals == {"lit"}

\* isinstance(o, URIRef)
IsURIRef(o) == o \notin BNodes /\ o \notin Literals

-----------------------------------------------------------------------------
(* The store's query interface, as the program uses it.                    *)

\* g.subjects(p, o)
Subjects(G, p, o) == {t[1] : t \in {u \in G : u[2] = p /\ u[3] = o}}

\* g.subjects(p, None)
SubjectsAny(G, p) == {t[1] : t \in {u \in G : u[2] = p}}

\* g.objects(s, p)
Objects(G, s, p) == {t[3] : t \in {u \in G : u[1] = s /\ u[2] = p}}

\* g.subject_objects(p)
SubjectObjects(G, p) == {<<t[1], t[3]>> : t \in {u \in G : u[2] = p}}

\* g.predicate_objects(s)
PredicateObjects(G, s) == {<<t[2], t[3]>> : t \in {u \in G : u[1] = s}}

\* (o, RDF.type, None) in g
HasType(G, o) == \E t \in G : t[1] = o /\ t[2] = RDF_type

\* list(Collection(g, node)): follow rdf:first / rdf:rest from node to rdf:nil
RECURSIVE CollectionItems(_, _, _)
CollectionItems(G, node, chain) ==
    IF node = RDF_nil \/ node \in chain
    THEN <<>>
    ELSE LET firsts == Objects(G, node, RDF_first)
             rests == Objects(G, node, RDF_rest)
             head == IF firsts = {} THEN <<>>
                     ELSE <<CHOOSE f \in firsts : TRUE>>
         IN  IF rests = {} THEN head
             ELSE head \o CollectionItems(G, CHOOSE r \in rests : TRUE,
                                          chain \cup {node})

Range(s) == {s[i] : i \in DOMAIN s}

-----------------------------------------------------------------------------
(* Arithmetic.  A quotient n / d is kept as the pair <<n, d>>; the literal *)
(* 0 of the guarded branches is <<0, 1>>.                                  *)

ZeroDivisionError == "ZeroDivisionError"
Zero == <<0, 1>>

Div(n, d) == IF d = 0 THEN ZeroDivisionError ELSE <<n, d>>

RECURSIVE SumOver(_, _)
SumOver(f, S) ==
    IF S = {} THEN 0
    ELSE LET x == CHOOSE y \in S : TRUE IN f[x] + SumOver(f, S \ {x})

-----------------------------------------------------------------------------
(* extract_elements                                                        *)

Classes(G) == Subjects(G, RDF_type, OWL_Class) \cup Subjects(G, RDF_type, RDFS_Class)

AllTyped(G) == SubjectsAny(G, RDF_type)

Instances(G) == AllTyped(G) \ Classes(G)

SubclassTriples(G) ==
    {so \in SubjectObjects(G, RDFS_subClassOf) :
        so[1] \in Classes(G) /\ so[2] \in Classes(G)}

\* the pairs one owl:AllDisjointClasses node bn contributes
GroupDisjoints(G, bn) ==
    LET nodes == Objects(G, bn, OWL_members)
    IN  IF nodes = {} THEN {}
        ELSE LET members_node == CHOOSE n \in nodes : TRUE
                 items == CollectionItems(G, members_node, {})
             IN  {<<items[i], OWL_disjointWith, items[j]>> :
                    <<i, j>> \in {ij \in (DOMAIN items) \X (DOMAIN items) :
                        /\ items[ij[1]] # items[ij[2]]
                        /\ items[ij[1]] \in Classes(G)
                        /\ items[ij[2]] \in Classes(G)}}

ExtraDisjoints(G) ==
    UNION {GroupDisjoints(G, bn) : bn \in Subjects(G, RDF_type, OWL_AllDisjointClasses)}

ExplicitRels(G) ==
    {t \in G : /\ t[1] \in Classes(G)
               /\ IsURIRef(t[3]) /\ t[3] \in Classes(G)
               /\ t[2] # RDFS_subClassOf}

NoninheritRels(G) == ExplicitRels(G) \cup ExtraDisjoints(G)

\* the two collections counted separately
NumNoninherit_summed(G) ==
    Cardinality(ExplicitRels(G)) + Cardinality(ExtraDisjoints(G))

\* num_noninherit = len(noninherit_rels)
NumNoninherit(G) == Cardinality(NoninheritRels(G))

ObjProps(G) == Subjects(G, RDF_type, OWL_ObjectProperty)

DataProps(G) == Subjects(G, RDF_type, OWL_DatatypeProperty)

\* class_instances without the test `cls in classes`
ClassInstances_anyType(G) ==
    LET typings == {t \in G : t[1] \in Instances(G) /\ t[2] = RDF_type}
    IN  [c \in {t[3] : t \in typings} |->
            Cardinality({t \in typings : t[3] = c})]

\* class_instances: a defaultdict(int) holding the keys that were incremented
ClassInstances(G) ==
    LET typings == {t \in G : /\ t[1] \in Instances(G)
                              /\ t[2] = RDF_type
                              /\ t[3] \in Classes(G)}
    IN  [c \in {t[3] : t \in typings} |->
            Cardinality({t \in typings : t[3] = c})]

extract_elements(G) ==
    [classes |-> Classes(G),
     instances |-> Instances(G),
     obj_props |-> ObjProps(G),
     data_props |-> DataProps(G),
     num_subclasses |-> Cardinality(SubclassTriples(G)),
     num_noninherit |-> NumNoninherit(G),
     class_instances |-> ClassInstances(G)]

-----------------------------------------------------------------------------
(* Schema metrics                                                          *)

relationship_richness(num_noninherit, num_subclasses) ==
    LET total == num_noninherit + num_subclasses
    IN  IF total > 0 THEN Div(num_noninherit, total) ELSE Zero

\* inheritance_richness without its guard
inheritance_richness_unguarded(num_subclasses, num_classes) ==
    Div(num_subclasses, num_classes)

inheritance_richness(num_subclasses, num_classes) ==
    IF num_classes > 0 THEN Div(num_subclasses, num_classes) ELSE Zero

attribute_richness(num_data_props, num_classes) ==
    IF num_classes > 0 THEN Div(num_data_props, num_classes) ELSE Zero

-----------------------------------------------------------------------------
(* Knowledge-base metrics computed in one pass                             *)

\* class_richness without its guard
class_richness_unguarded(num_classes, class_instances) ==
    Div(Cardinality({c \in DOMAIN class_instances : class_instances[c] > 0}),
        num_classes)

class_richness(num_classes, class_instances) ==
    LET non_empty == Cardinality({c \in DOMAIN class_instances : class_instances[c] > 0})
    IN  IF num_classes > 0 THEN Div(non_empty, num_classes) ELSE Zero

\* links other than the instance's typing triples
InstLinks_noTyping(G, inst) ==
    {po \in PredicateObjects(G, inst) :
        po[1] # RDF_type /\ IsURIRef(po[2]) /\ HasType(G, po[2])}

\* the links class_connectivity counts for one instance
InstLinks(G, inst) ==
    {po \in PredicateObjects(G, inst) : IsURIRef(po[2]) /\ HasType(G, po[2])}

class_connectivity(G, classes) ==
    [c \in classes |->
        LET insts == Subjects(G, RDF_type, c)
        IN  SumOver([i \in insts |-> Cardinality(InstLinks(G, i))], insts)]

SchemaProps(G, classes, obj_props) ==
    [d \in {c \in classes : \E p \in obj_props : c \in Objects(G, p, RDFS_domain)} |->
        {p \in obj_props : d \in Objects(G, p, RDFS_domain)}]

InstUsage(G, classes, obj_props) ==
    LET usedBy(c) == {po[1] : po \in
                        {q \in UNION {PredicateObjects(G, i) : i \in Subjects(G, RDF_type, c)} :
                            q[1] \in obj_props}}
    IN  [c \in {k \in classes : usedBy(k) # {}} |-> usedBy(c)]

per_class_relationship_richness(G, classes, obj_props) ==
    LET schema_props == SchemaProps(G, classes, obj_props)
        inst_usage == InstUsage(G, classes, obj_props)
    IN  [c \in classes |->
            LET defined == IF c \in DOMAIN schema_props THEN schema_props[c] ELSE {}
                used == IF c \in DOMAIN inst_usage THEN inst_usage[c] ELSE {}
            IN  IF defined # {} THEN Div(Cardinality(used), Cardinality(defined))
                ELSE Zero]

-----------------------------------------------------------------------------
(* The input: Turtle statements the parser may read.  A statement is the   *)
(* set of triples it contributes; a collection ( a b ) contributes a       *)
(* well-formed rdf:first / rdf:rest list.  A file draws its statements     *)
(* from one of three vocabularies.                                         *)

T(s, p, o) == {<<s, p, o>>}

\* [] a owl:AllDisjointClasses ; owl:members ( items ) .
RECURSIVE ListTriples(_, _)
ListTriples(nodes, items) ==
    IF Len(items) = 0 THEN {}
    ELSE {<<nodes[1], RDF_first, items[1]>>,
          <<nodes[1], RDF_rest, IF Len(items) = 1 THEN RDF_nil ELSE nodes[2]>>}
         \cup ListTriples(Tail(nodes), Tail(items))

DisjointGroup(bn, nodes, items) ==
    {<<bn, RDF_type, OWL_AllDisjointClasses>>, <<bn, OWL_members, nodes[1]>>}
    \cup ListTriples(nodes, items)

Group1 == DisjointGroup("_:g1", <<"_:l11", "_:l12">>, <<"Cat", "Dog">>)
Group2 == DisjointGroup("_:g2", <<"_:l21", "_:l22", "_:l23">>, <<"Dog", "Cat", "Animal">>)
Group3 == T("_:g3", RDF_type, OWL_AllDisjointClasses)

\* instances, their links and the properties they use
KBFile ==
    { T("Dog", RDF_type, OWL_Class),
      T("rex", RDF_type, "Dog"),
      T("spot", RDF_type, "Dog"),
      T("tom", RDF_type, "Cat"),
      T("_:b", RDF_type, "Dog"),
      T("friendOf", RDF_type, OWL_ObjectProperty),
      T("friendOf", RDFS_domain, "Dog"),
      T("chases", RDF_type, OWL_ObjectProperty),
      T("rex", "friendOf", "spot"),
      T("spot", "friendOf", "rex"),
      T("rex", "chases", "tom"),
      T("spot", "friendOf", "_:b"),
      T("_:b", "friendOf", "rex"),
      T("rex", "friendOf", "lit"),
      T("rex", "friendOf", "rex") }

\* the class hierarchy and its population
HierarchyFile ==
    { T("Animal", RDF_type, OWL_Class),
      T("Dog", RDF_type, RDFS_Class),
      T("Cat", RDF_type, OWL_Class),
      T("_:k", RDF_type, OWL_Class),
      T("Dog", RDFS_subClassOf, "Animal"),
      T("Cat", RDFS_subClassOf, "Animal"),
      T("Cat", RDFS_subClassOf, "Dog"),
      T("Animal", RDFS_subClassOf, "Dog"),
      T("Animal", RDFS_subClassOf, "Animal"),
      T("Dog", RDFS_subClassOf, "rex"),
      T("rex", RDF_type, "Animal"),
      T("rex", RDF_type, "Cat"),
      T("spot", RDF_type, "Dog"),
      T("spot", RDF_type, "_:k"),
      T("Dog", RDF_type, "Animal") }

\* class-to-class relations, disjoint groups and data properties
SchemaFile ==
    { T("Cat", RDF_type, OWL_Class),
      T("Dog", RDF_type, OWL_Class),
      T("Animal", RDF_type, RDFS_Class),
      T("_:k", RDF_type, OWL_Class),
      Group1, Group2, Group3,
      T("Cat", OWL_disjointWith, "Dog"),
      T("Cat", OWL_disjointWith, "_:k"),
      T("Cat", "chases", "Dog"),
      T("Cat", RDFS_subClassOf, "Dog"),
      T("name", RDF_type, OWL_DatatypeProperty),
      T("age", RDF_type, OWL_DatatypeProperty) }

Files == {KBFile, HierarchyFile, SchemaFile}

Statements == UNION Files

\* the largest number of statements a file holds
MaxStatements == 7

\* the statements of file F the store holds so far
Parsed(G, F) == {s \in F : s \subseteq G}

-----------------------------------------------------------------------------
(* State                                                                   *)

\* Before its assignment a variable holds None (a name), the empty mapping or
\* 0, by the kind of value it will hold; pc tells which variables are assigned.
None == "None"
EmptyMap == <<>>

Init ==
    /\ g = {}
    /\ pc = "parse"
    /\ elems = EmptyMap
    /\ RR = EmptyMap /\ IR = EmptyMap /\ AR = EmptyMap /\ CR = EmptyMap
    /\ conn = EmptyMap
    /\ subclass_map = EmptyMap /\ total_instances = 0 /\ importance = EmptyMap
    /\ imp_todo = {} /\ cls = None /\ queue = <<>> /\ subtree = {}
    /\ adds = EmptyMap /\ pops = 0
    /\ adj = EmptyMap /\ visited = {} /\ components = 0 /\ coh_todo = {}
    /\ stack = <<>> /\ marks = EmptyMap
    /\ coh = 0
    /\ per_rr = EmptyMap

schemaVars == <<RR, IR, AR>>
impVars == <<subclass_map, total_instances, importance, imp_todo, cls, queue,
             subtree, adds, pops>>
cohVars == <<adj, visited, components, coh_todo, stack, marks, coh>>

\* load_graph: g.parse reads one more statement of the file
ParseStatement(s) ==
    /\ pc = "parse"
    /\ ~(s \subseteq g)
    /\ \E F \in Files :
        /\ s \in F
        /\ g \subseteq UNION F
        /\ Cardinality(Parsed(g, F)) < MaxStatements
    /\ g' = g \cup s
    /\ UNCHANGED <<pc, elems, schemaVars, CR, conn, impVars, cohVars, per_rr>>

\* load_graph returns; elems = extract_elements(g)
ExtractElements ==
    /\ pc = "parse"
    /\ elems' = extract_elements(g)
    /\ pc' = "schema"
    /\ UNCHANGED <<g, schemaVars, CR, conn, impVars, cohVars, per_rr>>

Raises(v) == v = ZeroDivisionError

\* RR, IR, AR of the main script
ComputeSchemaMetrics ==
    /\ pc = "schema"
    /\ LET C == Cardinality(elems.classes)
           SC == elems.num_subclasses
           NI == elems.num_noninherit
           DP == Cardinality(elems.data_props)
           rr == relationship_richness(NI, SC)
           ir == inheritance_richness(SC, C)
           ar == attribute_richness(DP, C)
       IN  IF Raises(rr) THEN pc' = "raised" /\ UNCHANGED schemaVars
           ELSE IF Raises(ir) THEN pc' = "raised" /\ RR' = rr /\ UNCHANGED <<IR, AR>>
           ELSE IF Raises(ar) THEN pc' = "raised" /\ RR' = rr /\ IR' = ir /\ UNCHANGED AR
           ELSE pc' = "class_richness" /\ RR' = rr /\ IR' = ir /\ AR' = ar
    /\ UNCHANGED <<g, elems, CR, conn, impVars, cohVars, per_rr>>

ComputeClassRichness ==
    /\ pc = "class_richness"
    /\ LET cr == class_richness(Cardinality(elems.classes), elems.class_instances)
       IN  IF Raises(cr) THEN pc' = "raised" /\ UNCHANGED CR
           ELSE pc' = "connectivity" /\ CR' = cr
    /\ UNCHANGED <<g, elems, schemaVars, conn, impVars, cohVars, per_rr>>

ComputeClassConnectivity ==
    /\ pc = "connectivity"
    /\ conn' = class_connectivity(g, elems.classes)
    /\ pc' = "importance"
    /\ UNCHANGED <<g, elems, schemaVars, CR, impVars, cohVars, per_rr>>

-----------------------------------------------------------------------------
(* class_importance, one loop iteration per step                           *)

\* the orders in which an iteration may deliver the members of S
Orders(S) == {s \in [1..Cardinality(S) -> S] : Range(s) = S}

\* subclass_map built from parent to child reversed
Children_reversed(G, classes, o) ==
    {so[2] : so \in {x \in SubjectObjects(G, RDFS_subClassOf) :
                        x[1] \in classes /\ x[2] \in classes /\ x[1] = o}}

Children(G, classes, o) ==
    {so[1] : so \in {x \in SubjectObjects(G, RDFS_subClassOf) :
                        x[1] \in classes /\ x[2] \in classes /\ x[2] = o}}

Parents(G, classes) ==
    {so[2] : so \in {x \in SubjectObjects(G, RDFS_subClassOf) :
                        x[1] \in classes /\ x[2] \in classes}}

\* the values subclass_map may take: every parent maps to the list of its
\* children, in the order subject_objects delivered them
SubclassMaps(G, classes) ==
    LET P == Parents(G, classes)
    IN  {m \in [P -> UNION {Orders(Children(G, classes, o)) : o \in P}] :
            \A o \in P : m[o] \in Orders(Children(G, classes, o))}

\* subclass_map.get(c, [])
Get(m, c, default) == IF c \in DOMAIN m THEN m[c] ELSE default

\* sum(class_instances.values())
TotalInstances(class_instances) == SumOver(class_instances, DOMAIN class_instances)

\* sum(class_instances.get(c, 0) for c in subtree)
InstCount(class_instances, tree) ==
    SumOver([c \in tree |-> Get(class_instances, c, 0)], tree)

\* inst_count / total_instances if total_instances > 0 else 0
ImportanceOf(inst_count, total) ==
    IF total > 0 THEN Div(inst_count, total) ELSE Zero

\* a traversal that never enqueues the children
Extend_nothing(q, m, c) == q

\* queue.extend(subclass_map.get(c, []))
Extend(q, m, c) == q \o Get(m, c, <<>>)

\* a traversal without the visited test
NotInSubtree_always(c, tree) == TRUE

\* may c be added to the closure?  (if c not in subtree)
NotInSubtree(c, tree) == c \notin tree

Bump(f, k) ==
    [x \in DOMAIN f \cup {k} |-> IF x = k THEN Get(f, x, 0) + 1 ELSE f[x]]

ImportanceBegin ==
    /\ pc = "importance"
    /\ subclass_map' \in SubclassMaps(g, elems.classes)
    /\ total_instances' = TotalInstances(elems.class_instances)
    /\ importance' = EmptyMap
    /\ imp_todo' = elems.classes
    /\ pc' = "imp_loop"
    /\ UNCHANGED <<g, elems, schemaVars, CR, conn, cls, queue, subtree, adds, pops,
                   cohVars, per_rr>>

\* for cls in classes: queue = deque([cls]); subtree = set()
ImportanceNextClass ==
    /\ pc = "imp_loop"
    /\ \E c \in imp_todo :
        /\ cls' = c
        /\ imp_todo' = imp_todo \ {c}
        /\ queue' = <<c>>
    /\ subtree' = {}
    /\ adds' = EmptyMap
    /\ pops' = 0
    /\ pc' = "imp_bfs"
    /\ UNCHANGED <<g, elems, schemaVars, CR, conn, subclass_map, total_instances,
                   importance, cohVars, per_rr>>

\* one iteration of `while queue`
ImportancePop ==
    /\ pc = "imp_bfs"
    /\ queue # <<>>
    /\ LET c == Head(queue)
       IN  IF NotInSubtree(c, subtree)
           THEN /\ subtree' = subtree \cup {c}
                /\ adds' = Bump(adds, c)
                /\ queue' = Extend(Tail(queue), subclass_map, c)
           ELSE /\ queue' = Tail(queue)
                /\ UNCHANGED <<subtree, adds>>
    /\ pops' = pops + 1
    /\ UNCHANGED <<g, pc, elems, schemaVars, CR, conn, subclass_map, total_instances,
                   importance, imp_todo, cls, cohVars, per_rr>>

\* the queue is empty: importance[cls] = ...
ImportanceFinishClass ==
    /\ pc = "imp_bfs"
    /\ queue = <<>>
    /\ LET v == ImportanceOf(InstCount(elems.class_instances, subtree), total_instances)
       IN  IF Raises(v) THEN pc' = "raised" /\ UNCHANGED importance
           ELSE /\ pc' = "imp_loop"
                /\ importance' = [x \in DOMAIN importance \cup {cls} |->
                                    IF x = cls THEN v ELSE importance[x]]
    /\ UNCHANGED <<g, elems, schemaVars, CR, conn, subclass_map, total_instances,
                   imp_todo, cls, queue, subtree, adds, pops, cohVars, per_rr>>

\* return importance
ImportanceReturn ==
    /\ pc = "imp_loop"
    /\ imp_todo = {}
    /\ pc' = "cohesion"
    /\ subclass_map' = EmptyMap /\ cls' = None /\ subtree' = {} /\ adds' = EmptyMap
    /\ pops' = 0
    /\ UNCHANGED <<g, elems, schemaVars, CR, conn, total_instances, importance,
                   imp_todo, queue, cohVars, per_rr>>

-----------------------------------------------------------------------------
(* cohesion, one loop iteration per step                                   *)

\* a triple that links two instances
IsLink(t, instances, obj_props) ==
    /\ t[2] \in obj_props
    /\ t[1] \in instances
    /\ IsURIRef(t[3])
    /\ t[3] \in instances

\* adj: a defaultdict(set); adj[curr] is the empty set for a missing key
Adjacency(G, instances, obj_props) ==
    LET links == {t \in G : IsLink(t, instances, obj_props)}
    IN  [i \in instances |->
            {t[3] : t \in {u \in links : u[1] = i}} \cup
            {t[1] : t \in {u \in links : u[3] = i}}]

\* the neighbours of curr the inner for loop marks (if nbr not in visited)
Unvisited(nbrs, seen) == nbrs \ seen

RECURSIVE BumpAll(_, _)
BumpAll(f, s) == IF s = <<>> THEN f ELSE BumpAll(Bump(f, Head(s)), Tail(s))

CohesionBegin ==
    /\ pc = "cohesion"
    /\ adj' = Adjacency(g, elems.instances, elems.obj_props)
    /\ visited' = {}
    /\ components' = 0
    /\ coh_todo' = elems.instances
    /\ stack' = <<>>
    /\ marks' = EmptyMap
    /\ pc' = "coh_loop"
    /\ UNCHANGED <<g, elems, schemaVars, CR, conn, impVars, coh, per_rr>>

\* for inst in instances: if inst not in visited: ...
CohesionNextInst ==
    /\ pc = "coh_loop"
    /\ \E inst \in coh_todo :
        /\ coh_todo' = coh_todo \ {inst}
        /\ IF Unvisited({inst}, visited) # {}
           THEN /\ components' = components + 1
                /\ stack' = <<inst>>
                /\ visited' = visited \cup {inst}
                /\ marks' = Bump(marks, inst)
                /\ pc' = "coh_bfs"
           ELSE UNCHANGED <<components, stack, visited, marks, pc>>
    /\ UNCHANGED <<g, elems, schemaVars, CR, conn, impVars, adj, coh, per_rr>>

\* one iteration of `while queue`: curr = queue.pop(), then the for loop over
\* adj[curr]
CohesionPop ==
    /\ pc = "coh_bfs"
    /\ stack # <<>>
    /\ LET curr == stack[Len(stack)]
           rest == SubSeq(stack, 1, Len(stack) - 1)
       IN  \E new \in Orders(Unvisited(adj[curr], visited)) :
            /\ visited' = visited \cup Range(new)
            /\ marks' = BumpAll(marks, new)
            /\ stack' = rest \o new
    /\ pc' = IF stack' = <<>> THEN "coh_loop" ELSE "coh_bfs"
    /\ UNCHANGED <<g, elems, schemaVars, CR, conn, impVars, adj, components,
                   coh_todo, coh, per_rr>>

\* return components
CohesionReturn ==
    /\ pc = "coh_loop"
    /\ coh_todo = {}
    /\ coh' = components
    /\ pc' = "per_rr"
    /\ UNCHANGED <<g, elems, schemaVars, CR, conn, impVars, adj, visited, components,
                   coh_todo, stack, marks, per_rr>>

-----------------------------------------------------------------------------

ComputePerClassRR ==
    /\ pc = "per_rr"
    /\ LET r == per_class_relationship_richness(g, elems.classes, elems.obj_props)
       IN  IF \E c \in DOMAIN r : Raises(r[c])
           THEN pc' = "raised" /\ UNCHANGED per_rr
           ELSE pc' = "done" /\ per_rr' = r
    /\ UNCHANGED <<g, elems, schemaVars, CR, conn, impVars, cohVars>>

Next ==
    \/ \E s \in Statements : ParseStatement(s)
    \/ ExtractElements
    \/ ComputeSchemaMetrics
    \/ ComputeClassRichness
    \/ ComputeClassConnectivity
    \/ ImportanceBegin
    \/ ImportanceNextClass
    \/ ImportancePop
    \/ ImportanceFinishClass
    \/ ImportanceReturn
    \/ CohesionBegin
    \/ CohesionNextInst
    \/ CohesionPop
    \/ CohesionReturn
    \/ ComputePerClassRR

Spec == Init /\ [][Next]_vars

-----------------------------------------------------------------------------
(* Notions the properties below are stated in                              *)

Done == pc = "done"

\* class_connectivity has returned
ConnReturned ==
    pc \in {"importance", "imp_loop", "imp_bfs", "cohesion", "coh_loop", "coh_bfs",
            "per_rr", "done"}

\* a quotient <<n, d>> read as a number
NonNeg(v) == v[1] >= 0 /\ v[2] > 0
InUnit(v) == NonNeg(v) /\ v[1] <= v[2]
IsZero(v) == NonNeg(v) /\ v[1] = 0
IsOne(v) == NonNeg(v) /\ v[1] = v[2]
Leq(a, b) == a[1] * b[2] <= b[1] * a[2]

\* the set S closed under "x is a subclass of a member", along the axioms E
RECURSIVE Descendants(_, _)
Descendants(S, E) ==
    LET S2 == S \cup {e[1] : e \in {x \in E : x[2] \in S}}
    IN  IF S2 = S THEN S ELSE Descendants(S2, E)

\* the set S closed under the undirected links E
RECURSIVE Connected(_, _)
Connected(S, E) ==
    LET S2 == S \cup {e[2] : e \in {x \in E : x[1] \in S}}
                \cup {e[1] : e \in {x \in E : x[2] \in S}}
    IN  IF S2 = S THEN S ELSE Connected(S2, E)

NumComponents(nodes, E) == Cardinality({Connected({i}, E) : i \in nodes})

\* the class types of an instance
ClassTypes(i) == {c \in Objects(g, i, RDF_type) : c \in elems.classes}

-----------------------------------------------------------------------------
(* C1 *)

ScenarioB ==
    UNION { T("Dog", RDF_type, OWL_Class),
            T("rex", RDF_type, "Dog"),
            T("spot", RDF_type, "Dog"),
            T("friendOf", RDF_type, OWL_ObjectProperty),
            T("friendOf", RDFS_domain, "Dog"),
            T("rex", "friendOf", "spot") }

\* C1: in Scenario B's store class_connectivity returns ClassConnectivity[Dog] = 1
\* (only the link rex friendOf spot is counted).
C1_ScenarioB ==
    (g = ScenarioB /\ ConnReturned) => conn["Dog"] = 1

\* What the code returns there: the two typing triples are counted as well.
C1_CodeReturns3 ==
    (g = ScenarioB /\ ConnReturned) => conn["Dog"] = 3

-----------------------------------------------------------------------------
(* C2 *)

\* C2: InheritanceRichness, AttributeRichness and PerClassRelationshipRichness(c)
\* for every class c are each in [0, 1].
C2_UnitInterval ==
    Done => /\ InUnit(IR)
            /\ InUnit(AR)
            /\ \A c \in elems.classes : InUnit(per_rr[c])

\* C2 as amended: the three values are computed without a division error, are
\* never negative and are exactly 0 when their denominator is 0; they are bounded
\* by |ClassSet|, |PropertySet(data)| and |PropertySet(object)| respectively, not
\* by 1.
C2_Amended ==
    /\ pc # "raised"
    /\ Done =>
        LET C == Cardinality(elems.classes)
        IN  /\ NonNeg(IR) /\ (C = 0 => IsZero(IR)) /\ IR[1] <= C * IR[2]
            /\ NonNeg(AR) /\ (C = 0 => IsZero(AR))
            /\ AR[1] <= Cardinality(elems.data_props) * AR[2]
            /\ \A c \in elems.classes :
                /\ NonNeg(per_rr[c])
                /\ (Subjects(g, RDFS_domain, c) \cap elems.obj_props = {}
                        => IsZero(per_rr[c]))
                /\ per_rr[c][1] <= Cardinality(elems.obj_props) * per_rr[c][2]

\* a run where InheritanceRichness exceeds 1
C2_Witness ==
    /\ Done
    /\ elems.classes # {}
    /\ IR[1] > IR[2]

\* runs where the other two values exceed 1
C2_AttributeAboveOne == Done /\ AR[1] > AR[2]
C2_PerClassAboveOne == Done /\ \E c \in elems.classes : per_rr[c][1] > per_rr[c][2]

-----------------------------------------------------------------------------
(* C3 *)

\* C3: RelationshipRichness, ClassRichness and Importance(c) for every class c
\* are each in [0, 1] and exactly 0 when the denominator is 0: the populated
\* classes never outnumber ClassSet and a closure's instance count never exceeds
\* the total instance count.
C3_UnitInterval ==
    /\ pc # "raised"
    /\ Done =>
        /\ InUnit(RR) /\ InUnit(CR)
        /\ (elems.num_noninherit + elems.num_subclasses = 0 => IsZero(RR))
        /\ (elems.classes = {} => IsZero(CR))
        /\ Cardinality({c \in DOMAIN elems.class_instances :
                            elems.class_instances[c] > 0})
             <= Cardinality(elems.classes)
        /\ DOMAIN importance = elems.classes
        /\ \A c \in elems.classes :
            /\ InUnit(importance[c])
            /\ (total_instances = 0 => IsZero(importance[c]))
            /\ (total_instances > 0 => importance[c][2] = total_instances)

\* a run with an instance of two classes, a subclass cycle and an importance
\* strictly between 0 and 1
C3_Witness ==
    /\ Done
    /\ \E i \in elems.instances : Cardinality(ClassTypes(i)) >= 2
    /\ \E e \in SubclassTriples(g) :
        e[1] # e[2] /\ e[2] \in Descendants({e[1]}, SubclassTriples(g))
    /\ \E c \in elems.classes :
        0 < importance[c][1] /\ importance[c][1] < importance[c][2]
    /\ CR[1] > 0 /\ CR[1] < CR[2]

-----------------------------------------------------------------------------
(* C4 *)

\* the class hierarchy is a single tree rooted in root
RootedTree(root) ==
    /\ root \in elems.classes
    /\ Descendants({root}, SubclassTriples(g)) = elems.classes
    /\ Cardinality(SubclassTriples(g)) = Cardinality(elems.classes) - 1

\* every instance is typed with classes of the tree
TotalCoverage ==
    \A i \in elems.instances :
        Objects(g, i, RDF_type) \subseteq elems.classes

ImportanceSum == SumOver([c \in elems.classes |-> importance[c][1]], elems.classes)

\* C4: when the hierarchy is a single rooted tree and every instance is typed
\* with classes of that tree, Importance(root) = 1.
C4_RootIsOne ==
    Done => \A root \in elems.classes :
                (RootedTree(root) /\ TotalCoverage) => IsOne(importance[root])

\* C4 as amended: ... Importance(root) = 1 provided there is at least one
\* instance, and 0 when there is none.
C4_Amended ==
    Done => \A root \in elems.classes :
                (RootedTree(root) /\ TotalCoverage) =>
                    /\ (elems.instances # {} => IsOne(importance[root]))
                    /\ (elems.instances = {} => IsZero(importance[root]))

\* a populated tree of three classes whose root has importance 1 while the
\* importances of all classes sum to more than 1
C4_Witness ==
    /\ Done
    /\ \E root \in elems.classes :
        /\ RootedTree(root) /\ TotalCoverage
        /\ Cardinality(elems.classes) = 3
        /\ elems.instances # {}
        /\ IsOne(importance[root])
        /\ \E c \in elems.classes : c # root /\ importance[c][1] > 0
    /\ ImportanceSum > total_instances

-----------------------------------------------------------------------------
(* C5 *)

\* pairs of instances linked by an object-property triple
InstanceLinks ==
    {<<t[1], t[3]>> : t \in {u \in g : /\ u[2] \in elems.obj_props
                                       /\ u[1] \in elems.instances
                                       /\ u[3] \in elems.instances}}

\* the links whose object is a URI reference
URILinks == {e \in InstanceLinks : IsURIRef(e[2])}

CohesionReturned == pc \in {"per_rr", "done"}

\* C5: cohesion returns the number of connected components of the graph of all
\* instances with an edge between two instances linked by an object-property
\* triple, marking every instance visited exactly once; so it is >= 1 for a
\* non-empty InstanceSet, |InstanceSet| without links and 0 for an empty one.
C5_Cohesion ==
    CohesionReturned =>
        /\ coh = NumComponents(elems.instances, InstanceLinks)
        /\ DOMAIN marks = elems.instances
        /\ \A i \in elems.instances : marks[i] = 1
        /\ (elems.instances # {} => coh >= 1)
        /\ (InstanceLinks = {} => coh = Cardinality(elems.instances))
        /\ (elems.instances = {} => coh = 0)

\* What the code computes: the components under the links whose object is a
\* URI reference.
C5_URIComponents ==
    CohesionReturned =>
        /\ coh = NumComponents(elems.instances, URILinks)
        /\ DOMAIN marks = elems.instances
        /\ \A i \in elems.instances : marks[i] = 1
        /\ (elems.instances # {} => coh >= 1)
        /\ (InstanceLinks = {} => coh = Cardinality(elems.instances))
        /\ (elems.instances = {} => coh = 0)

-----------------------------------------------------------------------------
(* C6 *)

\* the disjoint groups a file may declare, each with the members it lists
DeclaredGroups ==
    { <<Group1, {"Cat", "Dog"}>>,
      <<Group2, {"Dog", "Cat", "Animal"}>>,
      <<Group3, {}>> }

PresentGroups == {gm \in DeclaredGroups : gm[1] \subseteq g}

\* every ordered pair of distinct members
OrderedPairs(M) ==
    {<<ab[1], OWL_disjointWith, ab[2]>> : ab \in {x \in M \X M : x[1] # x[2]}}

\* C6: for a disjoint group whose members are all classes every ordered pair of
\* members is a non-inheritance relation; the non-inheritance count is the
\* cardinality of the set, so a synthesized pair that coincides with an explicit
\* disjointWith triple or with another group's pair is counted once; with
\* members {Cat, Dog} and no other class-to-class relation the count is 2 and
\* RelationshipRichness = 2 / (2 + SubclassCount).
C6_DisjointGroups ==
    Done =>
        /\ \A gm \in PresentGroups :
            gm[2] \subseteq elems.classes => OrderedPairs(gm[2]) \subseteq NoninheritRels(g)
        /\ (\A gm \in PresentGroups : gm[2] \subseteq elems.classes) =>
            elems.num_noninherit =
                Cardinality(ExplicitRels(g) \cup
                            UNION {OrderedPairs(gm[2]) : gm \in PresentGroups})
        /\ ( /\ PresentGroups \in {{<<Group1, {"Cat", "Dog"}>>},
                                   {<<Group1, {"Cat", "Dog"}>>, <<Group3, {}>>}}
             /\ {"Cat", "Dog"} \subseteq elems.classes
             /\ ExplicitRels(g) = {} ) =>
            /\ elems.num_noninherit = 2
            /\ RR = <<2, 2 + elems.num_subclasses>>

\* two overlapping groups and an explicit disjointWith triple between two
\* members: six relations, each counted once
C6_Witness ==
    /\ Done
    /\ Group1 \subseteq g /\ Group2 \subseteq g
    /\ <<"Cat", OWL_disjointWith, "Dog">> \in g
    /\ {"Cat", "Dog", "Animal"} \subseteq elems.classes
    /\ elems.num_noninherit = 6

\* Scenario C with a subclass axiom
C6_ScenarioC ==
    /\ Done
    /\ PresentGroups = {<<Group1, {"Cat", "Dog"}>>}
    /\ {"Cat", "Dog"} \subseteq elems.classes
    /\ ExplicitRels(g) = {}
    /\ RR = <<2, 3>>

-----------------------------------------------------------------------------
(* C7 *)

-----------------------------------------------------------------------------
(* C8 *)

\* C8: the closure traversal terminates (it can always take its next step and
\* makes at most one iteration per subclass axiom, plus one before it leaves the
\* loop), adds each class to the closure at most once, and
\* ends with the closure equal to cls plus the classes that reach cls along
\* subclass-of edges between ClassSet members.
C8_Closure ==
    pc = "imp_bfs" =>
        /\ ENABLED (ImportancePop \/ ImportanceFinishClass)
        /\ DOMAIN adds = subtree
        /\ \A c \in DOMAIN adds : adds[c] = 1
        /\ pops + Len(queue) <= 1 + Cardinality(SubclassTriples(g))
        /\ subtree \subseteq Descendants({cls}, SubclassTriples(g))
        /\ (queue = <<>> => subtree = Descendants({cls}, SubclassTriples(g)))

\* the end of a traversal from a class that is its own parent, over three
\* classes, in which classes were dequeued again and skipped
C8_Witness ==
    /\ pc = "imp_bfs"
    /\ queue = <<>>
    /\ <<cls, cls>> \in SubclassTriples(g)
    /\ Cardinality(subtree) = 3
    /\ pops >= 5

-----------------------------------------------------------------------------
(* C9 *)

OnCommonCycle(a, b) ==
    /\ a \in Descendants({b}, SubclassTriples(g))
    /\ b \in Descendants({a}, SubclassTriples(g))

\* C9: for every subclass axiom (child, parent) between classes
\* Importance(parent) >= Importance(child), and two classes on a common subclass
\* cycle have equal Importance.
C9_Monotone ==
    Done =>
        /\ \A e \in SubclassTriples(g) : Leq(importance[e[1]], importance[e[2]])
        /\ \A a, b \in elems.classes :
            OnCommonCycle(a, b) => importance[a] = importance[b]

\* a populated hierarchy with a strict increase along one axiom and two
\* distinct classes on a cycle
C9_Witness ==
    /\ Done
    /\ \E e \in SubclassTriples(g) :
        ~Leq(importance[e[2]], importance[e[1]])
    /\ \E a, b \in elems.classes :
        a # b /\ OnCommonCycle(a, b) /\ importance[a][1] > 0

-----------------------------------------------------------------------------
(* C10 *)

TypedAs(c) == Subjects(g, RDF_type, c)

\* C10: for every class c that is a URI reference, ClassConnectivity[c] >= the
\* number of subjects typed c >= ClassInstanceCount[c]; so a populated declared
\* class has connectivity of at least 1.
C10_TypingCounted ==
    ConnReturned =>
        \A c \in elems.classes :
            IsURIRef(c) =>
                /\ conn[c] >= Cardinality(TypedAs(c))
                /\ Cardinality(TypedAs(c)) >= Get(elems.class_instances, c, 0)
                /\ (Get(elems.class_instances, c, 0) > 0 => conn[c] >= 1)

\* a populated class whose instances have no outgoing triple but their typing
C10_Witness ==
    /\ ConnReturned
    /\ \E c \in elems.classes :
        /\ IsURIRef(c)
        /\ Get(elems.class_instances, c, 0) >= 1
        /\ \A i \in TypedAs(c) : PredicateObjects(g, i) = {<<RDF_type, c>>}
        /\ conn[c] = Cardinality(TypedAs(c))

\* a class with more subjects typed by it than instances
C10_ClassTypedByClass ==
    /\ ConnReturned
    /\ \E c \in elems.classes :
        IsURIRef(c) /\ Cardinality(TypedAs(c)) > Get(elems.class_instances, c, 0)

\* a populated blank-node class with connectivity 0
C10_BlankNodeClass ==
    /\ ConnReturned
    /\ \E c \in elems.classes :
        ~IsURIRef(c) /\ Get(elems.class_instances, c, 0) >= 1 /\ conn[c] = 0

====
